---- MODULE Spec2Model ----
(***************************************************************************)
(* Budou: chunk construction, entity grouping, dependency resolution and   *)
(* HTML serialization (budou/chunk.py, budou/nlapisegmenter.py,            *)
(* budou/parser.py).                                                       *)
(*                                                                         *)
(* Text is a sequence of Unicode code points (integers).  Python's None is *)
(* the string "None" for pos and label, Unset for a dependency and NoText  *)
(* for an element's text or tail.  A dependency of True is Forward and a   *)
(* dependency of False is Backward.  Every Chunk object carries an id, its *)
(* object identity: Chunk defines no __eq__, so list.index() finds a chunk *)
(* by identity.                                                            *)
(***************************************************************************)
EXTENDS Integers, Sequences, FiniteSets, TLC

VARIABLES
  pc,          \* position of the running call
  input_text,  \* segment(): the text to parse
  tokens,      \* segment(): the tokens of the annotation response
  chunks,      \* the ChunkList (self.list)
  next_id,     \* identity of the next Chunk object to be created
  seen,        \* what the last operation was given and what it returned
  doc,         \* html_serialize(): the element tree built
  parse_defaults, \* Parser.parse: the dict object bound to attributes={}
  calls,       \* number of API calls made so far
  cache_file   \* PickleCache: the file at self.filename

vars == <<pc, input_text, tokens, chunks, next_id, seen, doc, parse_defaults, calls,
          cache_file>>

-----------------------------------------------------------------------------
(* Bounds *)

MaxTokens == 2
MaxChunks == 3
MaxEntityLen == 2
MaxSpanLen == 2
MaxCalls == 2
MaxCacheOps == 3

-----------------------------------------------------------------------------
(* Code points and strings *)

SPACE_CHAR == 32
BREAK_CHAR == 10
SPACE_POS == "SPACE"
BREAK_POS == "BREAK"
DEFAULT_CLASS_NAME == "chunk"

Forward == "Forward"
Backward == "Backward"
Unset == "Unset"
NoTag == "None"
NoText == <<-1>>

\* unicodedata.category on the code points the inputs are drawn from.
Category(c) ==
  CASE c = 40 -> "Ps"
    [] c = 41 -> "Pe"
    [] c = 171 -> "Pi"
    [] c = 12289 -> "Po"
    [] c = 32 -> "Zs"
    [] c = 9 -> "Cc"
    [] c = 10 -> "Cc"
    [] c = 97 -> "Ll"
    [] OTHER -> "Lo"

CJKRanges ==
  { <<4352, 4607>>, <<11904, 42191>>, <<43072, 43135>>, <<44032, 55215>>,
    <<63744, 64255>>, <<65072, 65103>>, <<65381, 65500>>, <<131072, 196607>> }

Reverse(s) == [i \in 1..Len(s) |-> s[Len(s) + 1 - i]]

\* ''.join([chunk.word for chunk in list])
RECURSIVE JoinWords(_)
JoinWords(list) ==
  IF list = <<>> THEN <<>> ELSE Head(list).word \o JoinWords(Tail(list))

-----------------------------------------------------------------------------
(* Chunk *)

Chunk(id, word, pos, label, dependency) ==
  [id |-> id, word |-> word, pos |-> pos, label |-> label,
   dependency |-> dependency]

space(id) == Chunk(id, <<SPACE_CHAR>>, SPACE_POS, NoTag, Unset)

breakline(id) == Chunk(id, <<BREAK_CHAR>>, BREAK_POS, NoTag, Unset)

is_space(chunk) == chunk.pos = SPACE_POS

is_punct(chunk) ==
  Len(chunk.word) = 1 /\ Category(chunk.word[1]) \in {"Ps", "Pe", "Pi", "Po"}

is_open_punct(chunk) ==
  is_punct(chunk) /\ Category(chunk.word[1]) \in {"Ps", "Pi"}

has_cjk(chunk) ==
  \E i \in 1..Len(chunk.word) :
    \E r \in CJKRanges : r[1] <= chunk.word[i] /\ chunk.word[i] <= r[2]

-----------------------------------------------------------------------------
(* ChunkList *)

\* list.index(chunk): position (from 0) of the first element that is the
\* same object, -1 where Python raises ValueError.
IndexOf(list, chunk) ==
  IF \E i \in 1..Len(list) : list[i].id = chunk.id
  THEN (CHOOSE i \in 1..Len(list) :
          /\ list[i].id = chunk.id
          /\ \A j \in 1..(i - 1) : list[j].id # chunk.id) - 1
  ELSE -1

\* Start offset (from 0) of the i-th chunk in the concatenated text.
RECURSIVE StartOf(_, _)
StartOf(list, i) ==
  IF i <= 1 THEN 0 ELSE StartOf(list, i - 1) + Len(list[i - 1].word)

\* get_overlaps without lines 139 and 140: the offset is taken as given.
GivenOffset(list, offset) == offset

\* The offset get_overlaps scans with: one past a space at `offset`.
ShiftedOffset(list, offset) ==
  IF JoinWords(list)[offset + 1] = SPACE_CHAR THEN offset + 1 ELSE offset

\* get_overlaps(offset, length).  err: the IndexError of text[offset].
get_overlaps(list, offset, length) ==
  IF offset >= Len(JoinWords(list))
  THEN [err |-> TRUE, result |-> <<>>]
  ELSE LET off == ShiftedOffset(list, offset)
           hit(i) == /\ off < StartOf(list, i) + Len(list[i].word)
                     /\ StartOf(list, i) < off + length
           RECURSIVE Scan(_)
           Scan(i) == IF i > Len(list) THEN <<>>
                      ELSE (IF hit(i) THEN <<list[i]>> ELSE <<>>) \o Scan(i + 1)
       IN [err |-> FALSE, result |-> Scan(1)]

\* del list[lo:hi] (Python slice, from 0, hi exclusive, both within range).
DelSlice(list, lo, hi) ==
  IF hi <= lo THEN list
  ELSE SubSeq(list, 1, lo) \o SubSeq(list, hi + 1, Len(list))

\* list.insert(i, v), i from 0.
InsertAt(list, i, v) ==
  LET k == IF i > Len(list) THEN Len(list) ELSE i
  IN SubSeq(list, 1, k) \o <<v>> \o SubSeq(list, k + 1, Len(list))

\* swap with the slice of line 156 ending before the last index.
SwapKeepingLast(list, old_chunks, new_chunk) ==
  IF old_chunks = <<>> \/ \E k \in 1..Len(old_chunks) : IndexOf(list, old_chunks[k]) = -1
  THEN [err |-> TRUE, list |-> list]
  ELSE LET first == IndexOf(list, old_chunks[1])
           last == IndexOf(list, old_chunks[Len(old_chunks)])
       IN [err |-> FALSE,
           list |-> InsertAt(DelSlice(list, first, last), first, new_chunk)]

\* swap(old_chunks, new_chunk).  err: IndexError on indexes[0] of an empty
\* list, ValueError of index() for a chunk that is not in the list.
swap(list, old_chunks, new_chunk) ==
  IF old_chunks = <<>> \/ \E k \in 1..Len(old_chunks) : IndexOf(list, old_chunks[k]) = -1
  THEN [err |-> TRUE, list |-> list]
  ELSE LET first == IndexOf(list, old_chunks[1])
           last == IndexOf(list, old_chunks[Len(old_chunks)])
       IN [err |-> FALSE,
           list |-> InsertAt(DelSlice(list, first, last + 1), first, new_chunk)]

DirectionOf(direction) == IF direction THEN Forward ELSE Backward

\* _concatenate_inner without line 196: the chunks left in the bucket at the
\* end of the scan are dropped.
ConcatenateInnerDroppingBucket(list, direction, nid) ==
  LET source_chunks == IF direction THEN list ELSE Reverse(list)
      RECURSIVE Loop(_, _, _, _)
      Loop(i, tmp_bucket, target_chunks, n) ==
        IF i > Len(source_chunks)
        THEN [list |-> target_chunks, nid |-> n]
        ELSE LET chunk == source_chunks[i] IN
          IF \/ chunk.dependency = DirectionOf(direction)
             \/ (~direction /\ chunk.pos = SPACE_POS)
          THEN Loop(i + 1, Append(tmp_bucket, chunk), target_chunks, n)
          ELSE LET filled == Append(tmp_bucket, chunk)
                   ordered == IF direction THEN filled ELSE Reverse(filled)
                   new_chunk == Chunk(n, JoinWords(ordered), chunk.pos,
                                      chunk.label, chunk.dependency)
               IN Loop(i + 1, <<>>, Append(target_chunks, new_chunk), n + 1)
      done == Loop(1, <<>>, <<>>, nid)
  IN [list |-> IF direction THEN done.list ELSE Reverse(done.list),
      nid |-> done.nid]

\* _concatenate_inner where the new chunk takes the pos, label and dependency
\* of the first chunk of the bucket.
ConcatenateInnerFirstAttributes(list, direction, nid) ==
  LET source_chunks == IF direction THEN list ELSE Reverse(list)
      RECURSIVE Loop(_, _, _, _)
      Loop(i, tmp_bucket, target_chunks, n) ==
        IF i > Len(source_chunks)
        THEN [list |-> target_chunks \o tmp_bucket, nid |-> n]
        ELSE LET chunk == source_chunks[i] IN
          IF \/ chunk.dependency = DirectionOf(direction)
             \/ (~direction /\ is_space(chunk))
          THEN Loop(i + 1, Append(tmp_bucket, chunk), target_chunks, n)
          ELSE LET filled == Append(tmp_bucket, chunk)
                   ordered == IF direction THEN filled ELSE Reverse(filled)
                   new_chunk == Chunk(n, JoinWords(ordered), filled[1].pos,
                                      filled[1].label, filled[1].dependency)
               IN Loop(i + 1, <<>>, Append(target_chunks, new_chunk), n + 1)
      done == Loop(1, <<>>, <<>>, nid)
  IN [list |-> IF direction THEN done.list ELSE Reverse(done.list),
      nid |-> done.nid]

\* _concatenate_inner without the reversal of the bucket of line 190.
ConcatenateInnerUnreversed(list, direction, nid) ==
  LET source_chunks == IF direction THEN list ELSE Reverse(list)
      RECURSIVE Loop(_, _, _, _)
      Loop(i, tmp_bucket, target_chunks, n) ==
        IF i > Len(source_chunks)
        THEN [list |-> target_chunks \o tmp_bucket, nid |-> n]
        ELSE LET chunk == source_chunks[i] IN
          IF \/ chunk.dependency = DirectionOf(direction)
             \/ (~direction /\ is_space(chunk))
          THEN Loop(i + 1, Append(tmp_bucket, chunk), target_chunks, n)
          ELSE LET filled == Append(tmp_bucket, chunk)
                   ordered == filled
                   new_chunk == Chunk(n, JoinWords(ordered), chunk.pos,
                                      chunk.label, chunk.dependency)
               IN Loop(i + 1, <<>>, Append(target_chunks, new_chunk), n + 1)
      done == Loop(1, <<>>, <<>>, nid)
  IN [list |-> IF direction THEN done.list ELSE Reverse(done.list),
      nid |-> done.nid]

\* _concatenate_inner(direction): the list after the pass and the next free
\* object identity.
_concatenate_inner(list, direction, nid) ==
  LET source_chunks == IF direction THEN list ELSE Reverse(list)
      RECURSIVE Loop(_, _, _, _)
      Loop(i, tmp_bucket, target_chunks, n) ==
        IF i > Len(source_chunks)
        THEN [list |-> target_chunks \o tmp_bucket, nid |-> n]
        ELSE LET chunk == source_chunks[i] IN
          IF \/ chunk.dependency = DirectionOf(direction)
             \/ (~direction /\ is_space(chunk))
          THEN Loop(i + 1, Append(tmp_bucket, chunk), target_chunks, n)
          ELSE LET filled == Append(tmp_bucket, chunk)
                   ordered == IF direction THEN filled ELSE Reverse(filled)
                   new_chunk == Chunk(n, JoinWords(ordered), chunk.pos,
                                      chunk.label, chunk.dependency)
               IN Loop(i + 1, <<>>, Append(target_chunks, new_chunk), n + 1)
      done == Loop(1, <<>>, <<>>, nid)
  IN [list |-> IF direction THEN done.list ELSE Reverse(done.list),
      nid |-> done.nid]

\* _insert_breaklines without the has_cjk() test of line 210.
InsertBreaklinesAnyScript(list, nid) ==
  LET RECURSIVE Loop(_, _, _, _)
      Loop(i, target_chunks, n, current) ==
        IF i > Len(list)
        THEN [err |-> FALSE, list |-> target_chunks, nid |-> n]
        ELSE LET chunk == list[i] IN
          IF chunk.word = <<>>
          THEN [err |-> TRUE, list |-> current, nid |-> n]
          ELSE IF chunk.word[Len(chunk.word)] = SPACE_CHAR
          THEN LET stripped ==
                     [chunk EXCEPT !.word = SubSeq(chunk.word, 1, Len(chunk.word) - 1)]
               IN Loop(i + 1, target_chunks \o <<stripped, breakline(n)>>, n + 1,
                       [current EXCEPT ![i] = stripped])
          ELSE Loop(i + 1, Append(target_chunks, chunk), n, current)
  IN Loop(1, <<>>, nid, list)

\* _insert_breaklines().  err: the IndexError of word[-1] on an empty word;
\* the list then keeps the words the loop has already stripped, as the loop
\* strips them in place.
_insert_breaklines(list, nid) ==
  LET RECURSIVE Loop(_, _, _, _)
      Loop(i, target_chunks, n, current) ==
        IF i > Len(list)
        THEN [err |-> FALSE, list |-> target_chunks, nid |-> n]
        ELSE LET chunk == list[i] IN
          IF chunk.word = <<>>
          THEN [err |-> TRUE, list |-> current, nid |-> n]
          ELSE IF chunk.word[Len(chunk.word)] = SPACE_CHAR /\ has_cjk(chunk)
          THEN LET stripped ==
                     [chunk EXCEPT !.word = SubSeq(chunk.word, 1, Len(chunk.word) - 1)]
               IN Loop(i + 1, target_chunks \o <<stripped, breakline(n)>>, n + 1,
                       [current EXCEPT ![i] = stripped])
          ELSE Loop(i + 1, Append(target_chunks, chunk), n, current)
  IN Loop(1, <<>>, nid, list)

\* resolve_dependencies without the backward pass of line 167.
ResolveForwardOnly(list, nid) ==
  LET fwd == _concatenate_inner(list, TRUE, nid)
  IN _insert_breaklines(fwd.list, fwd.nid)

\* resolve_dependencies(): forward pass, backward pass, breakline insertion.
resolve_dependencies(list, nid) ==
  LET fwd == _concatenate_inner(list, TRUE, nid)
      bwd == _concatenate_inner(fwd.list, FALSE, fwd.nid)
  IN _insert_breaklines(bwd.list, bwd.nid)

-----------------------------------------------------------------------------
(* NLAPISegmenter *)

DEPENDENT_LABEL ==
  {"P", "SNUM", "PRT", "AUX", "SUFF", "AUXPASS", "RDROP", "NUMBER", "NUM", "PREF"}

\* The chunk of a token where punctuation sets a direction only when the
\* label has set none.
SourceChunkLabelFirst(token, i, id) ==
  LET chunk == Chunk(id, token.content, token.tag, token.label, Unset)
      labelled ==
        IF chunk.label \in DEPENDENT_LABEL
        THEN [chunk EXCEPT !.dependency =
                IF i < token.headTokenIndex THEN Forward ELSE Backward]
        ELSE chunk
  IN IF is_punct(labelled) /\ labelled.dependency = Unset
     THEN [labelled EXCEPT !.dependency =
             IF is_open_punct(labelled) THEN Forward ELSE Backward]
     ELSE labelled

\* The chunk of a token where a token that is its own head counts as a
\* dependent of a later token.
SourceChunkOwnHeadForward(token, i, id) ==
  LET chunk == Chunk(id, token.content, token.tag, token.label, Unset)
      labelled ==
        IF chunk.label \in DEPENDENT_LABEL
        THEN [chunk EXCEPT !.dependency =
                IF i <= token.headTokenIndex THEN Forward ELSE Backward]
        ELSE chunk
  IN IF is_punct(labelled)
     THEN [labelled EXCEPT !.dependency =
             IF is_open_punct(labelled) THEN Forward ELSE Backward]
     ELSE labelled

\* The chunk _get_source_chunks makes of tokens[i + 1], the token enumerate()
\* numbers i.
SourceChunk(token, i, id) ==
  LET chunk == Chunk(id, token.content, token.tag, token.label, Unset)
      labelled ==
        IF chunk.label \in DEPENDENT_LABEL
        THEN [chunk EXCEPT !.dependency =
                IF i < token.headTokenIndex THEN Forward ELSE Backward]
        ELSE chunk
  IN IF is_punct(labelled)
     THEN [labelled EXCEPT !.dependency =
             IF is_open_punct(labelled) THEN Forward ELSE Backward]
     ELSE labelled

\* _get_source_chunks(): the list built and the next free object identity.
_get_source_chunks(toks, nid) ==
  LET RECURSIVE Loop(_, _, _, _)
      Loop(i, list, seek, n) ==
        IF i >= Len(toks) THEN [list |-> list, nid |-> n]
        ELSE LET token == toks[i + 1]
                 gap == token.beginOffset > seek
                 n1 == IF gap THEN n + 1 ELSE n
                 seek1 == IF gap THEN token.beginOffset ELSE seek
                 spaced == IF gap THEN Append(list, space(n)) ELSE list
             IN Loop(i + 1, Append(spaced, SourceChunk(token, i, n1)),
                     seek1 + Len(token.content), n1 + 1)
  IN Loop(0, <<>>, 0, nid)

\* One iteration of the loop of _group_chunks_by_entities.  err: the error
\* get_overlaps or swap ends in.
GroupByEntity(list, entity, nid) ==
  LET found == get_overlaps(list, entity.beginOffset, Len(entity.content))
      chunks_to_concat == found.result
  IN IF found.err
     THEN [err |-> TRUE, list |-> list, nid |-> nid, overlaps |-> <<>>]
     ELSE IF chunks_to_concat = <<>>
     THEN [err |-> FALSE, list |-> list, nid |-> nid, overlaps |-> <<>>]
     ELSE LET new_chunk == Chunk(nid, JoinWords(chunks_to_concat), NoTag, NoTag, Unset)
              swapped == swap(list, chunks_to_concat, new_chunk)
          IN [err |-> swapped.err, list |-> swapped.list, nid |-> nid + 1,
              overlaps |-> chunks_to_concat]

-----------------------------------------------------------------------------
(* html_serialize *)

\* max_length is <<>> for None and <<n>> for the integer n.
Truthy(max_length) == max_length # <<>> /\ max_length[1] # 0

\* The test of chunk.py line 243: the chunk gets a span element of its own.
Enclosed(chunk, max_length) ==
  has_cjk(chunk) /\ ~(Truthy(max_length) /\ Len(chunk.word) > max_length[1])

AddText(old, s) == IF old = NoText THEN s ELSE old \o s

\* Appends s after the last element, or to the text of doc when doc has no
\* element yet.
AppendPlain(d, s) ==
  IF d.children # <<>>
  THEN [d EXCEPT !.children[Len(d.children)].tail = AddText(@, s)]
  ELSE [d EXCEPT !.text = AddText(@, s)]

\* The loop of html_serialize: the tree under the outer span element.
BuildDoc(list, attributes, max_length) ==
  LET RECURSIVE Loop(_, _)
      Loop(i, d) ==
        IF i > Len(list) THEN d
        ELSE LET chunk == list[i] IN
          IF is_space(chunk)
          THEN IF d.children # <<>>
               THEN Loop(i + 1, AppendPlain(d, <<SPACE_CHAR>>))
               ELSE IF d.text # NoText
               THEN Loop(i + 1, [d EXCEPT !.text = @ \o <<SPACE_CHAR>>])
               ELSE Loop(i + 1, d)
          ELSE IF Enclosed(chunk, max_length)
          THEN Loop(i + 1,
                    [d EXCEPT !.children =
                       Append(@, [text |-> chunk.word, attrib |-> attributes,
                                  tail |-> NoText])])
          ELSE Loop(i + 1, AppendPlain(d, chunk.word))
  IN Loop(1, [text |-> NoText, children |-> <<>>])

OpenTag(attrib) == [kind |-> "open", text |-> <<>>, attrib |-> attrib]
CloseTag == [kind |-> "close", text |-> <<>>, attrib |-> {}]
TextNode(s) == [kind |-> "text", text |-> s, attrib |-> {}]
OptText(s) == IF s = NoText \/ s = <<>> THEN <<>> ELSE <<TextNode(s)>>

\* ET.tostring(doc) read back and written by html5lib: the markup as a
\* sequence of tags and text nodes.  An element without content is written
\* with its start and end tag.
RECURSIVE RenderChildren(_)
RenderChildren(children) ==
  IF children = <<>> THEN <<>>
  ELSE LET ele == Head(children)
       IN <<OpenTag(ele.attrib)>> \o OptText(ele.text) \o <<CloseTag>>
            \o OptText(ele.tail) \o RenderChildren(Tail(children))

\* The markup without the outer span element.
InnerMarkup(d) == OptText(d.text) \o RenderChildren(d.children)

tostring(d) ==
  <<OpenTag({})>> \o OptText(d.text) \o RenderChildren(d.children) \o <<CloseTag>>

html_serialize(list, attributes, max_length) ==
  tostring(BuildDoc(list, attributes, max_length))

-----------------------------------------------------------------------------
(* Parser *)

\* An attribute dict is a set of <<name, value>> pairs, one per name.
HasKey(attributes, k) == \E p \in attributes : p[1] = k
SetDefault(attributes, k, v) ==
  IF HasKey(attributes, k) THEN attributes ELSE attributes \cup {<<k, v>>}
SetItem(attributes, k, v) ==
  {p \in attributes : p[1] # k} \cup {<<k, v>>}

\* parse_attributes(): the contents of the dict object it was given, which
\* it updates in place and returns.  classname is NoTag for None.
parse_attributes(attributes, classname) ==
  LET defaulted == SetDefault(attributes, "class", DEFAULT_CLASS_NAME)
  IN IF classname # NoTag /\ classname # ""
     THEN SetItem(defaulted, "class", classname)
     ELSE defaulted

\* segment(): the chunks of a whole call without entities.
segment(toks, nid) ==
  LET source == _get_source_chunks(toks, nid)
  IN resolve_dependencies(source.list, source.nid)

-----------------------------------------------------------------------------
(* Parser, continued *)

IsWhitespace(c) == c \in {SPACE_CHAR, BREAK_CHAR, 9}

\* str.strip()
RECURSIVE LStrip(_)
LStrip(s) == IF s # <<>> /\ IsWhitespace(Head(s)) THEN LStrip(Tail(s)) ELSE s
Strip(s) == Reverse(LStrip(Reverse(LStrip(s))))

\* re.sub(r'\s\s+', u' ', source): a run of two or more whitespace
\* characters becomes one space.
RECURSIVE CollapseSpaces(_)
CollapseSpaces(s) ==
  IF s = <<>> THEN <<>>
  ELSE IF Len(s) >= 2 /\ IsWhitespace(s[1]) /\ IsWhitespace(s[2])
  THEN <<SPACE_CHAR>> \o CollapseSpaces(LStrip(s))
  ELSE <<Head(s)>> \o CollapseSpaces(Tail(s))

\* preprocess() on a source without markup.
preprocess(source) ==
  CollapseSpaces(Strip(SelectSeq(source, LAMBDA c : c # BREAK_CHAR)))

-----------------------------------------------------------------------------
(* PickleCache and memorize *)

\* None as a cached value; every value that is cached is a non-empty tuple.
NoValue == <<>>

\* The cache file: whether it exists and the objects pickled in it, a dict
\* being a set of <<key, value>> pairs.
NoFile == [exists |-> FALSE, pickles |-> <<>>]

\* open(filename, 'w+b'): the file is created or truncated to no bytes.
OpenTruncated(file) == [exists |-> TRUE, pickles |-> <<>>]

\* pickle.load(f).  err: the EOFError of a file with nothing to read.
PickleLoad(file) ==
  IF file.pickles = <<>> THEN [err |-> TRUE, dict |-> {}]
  ELSE [err |-> FALSE, dict |-> file.pickles[1]]

\* dict.get(key, None)
DictGet(dict, key) ==
  IF HasKey(dict, key) THEN (CHOOSE p \in dict : p[1] = key)[2] ELSE NoValue

\* PickleCache.get(key)
PickleCacheGet(file, key) ==
  IF ~file.exists THEN NoValue
  ELSE LET loaded == PickleLoad(file)
           cache_pickle == IF loaded.err THEN {} ELSE loaded.dict
       IN DictGet(cache_pickle, key)

\* PickleCache.set(key, val): the file after the call.
PickleCacheSet(file, key, val) ==
  LET f == OpenTruncated(file)
      loaded == PickleLoad(f)
      cache_pickle == IF loaded.err THEN {} ELSE loaded.dict
  IN [exists |-> TRUE, pickles |-> <<SetItem(cache_pickle, key, val)>>]

\* The key memorize derives for _get_annotations(text): the digest of the
\* joined class name, function name and arguments, one key per text.
CacheKey(text) == <<"NLAPISegmenter", "_get_annotations", text>>

\* What the annotation service answers for a text.
Annotations(text) == <<"annotations", text>>

\* memorize: the wrapper around _get_annotations(text, use_cache=use_cache).
\* The value returned, the file after the call, and the number of cache
\* reads and writes made.
memorize(file, text, use_cache) ==
  LET cache_key == CacheKey(text)
      cached_val == PickleCacheGet(file, cache_key)
  IN IF ~use_cache
     THEN [val |-> Annotations(text), file |-> file, reads |-> 0, writes |-> 0]
     ELSE IF cached_val # NoValue
     THEN [val |-> cached_val, file |-> file, reads |-> 1, writes |-> 0]
     ELSE [val |-> Annotations(text),
           file |-> PickleCacheSet(file, cache_key, Annotations(text)),
           reads |-> 1, writes |-> 1]

-----------------------------------------------------------------------------
(* Inputs *)

Letter == <<97>>
Kanji == <<26481>>

\* What a token can be: its text and part-of-speech tag.
Words ==
  { [content |-> Letter, tag |-> "NOUN"],
    [content |-> Kanji, tag |-> "NOUN"] }

Punctuation ==
  { [content |-> <<40>>, tag |-> "PUNCT"],
    [content |-> <<41>>, tag |-> "PUNCT"],
    [content |-> <<171>>, tag |-> "PUNCT"] }

\* The text between the end of the previous token and a token.
Spaces == { <<>>, <<SPACE_CHAR>> }
Gaps == Spaces \cup { <<9>> }

\* The dependency edge of a token in a response of n tokens: a dependent of
\* the first token, a dependent of the last token, or no dependent.
Edges(n) ==
  { [label |-> "PRT", headTokenIndex |-> 0],
    [label |-> "PRT", headTokenIndex |-> n - 1],
    [label |-> "NN", headTokenIndex |-> 0] }

\* One token of the annotation response, with the text that precedes it.
TokenChoices(lexicon, gaps, n) ==
  { [content |-> w.content, tag |-> w.tag, gap |-> g, label |-> e.label,
     headTokenIndex |-> e.headTokenIndex] :
      w \in lexicon, g \in gaps, e \in Edges(n) }

RECURSIVE MakeText(_)
MakeText(raw) ==
  IF raw = <<>> THEN <<>>
  ELSE Head(raw).gap \o Head(raw).content \o MakeText(Tail(raw))

\* The tokens as the service returns them: beginOffset is where the token's
\* text starts in the input text.
MakeTokens(raw) ==
  [i \in 1..Len(raw) |->
     [content |-> raw[i].content,
      beginOffset |-> Len(MakeText(SubSeq(raw, 1, i - 1))) + Len(raw[i].gap),
      label |-> raw[i].label, tag |-> raw[i].tag,
      headTokenIndex |-> raw[i].headTokenIndex]]

\* An entity span of `length` characters at `offset`; the part of it that
\* lies beyond the text is filled with letters.
Entity(text, offset, length) ==
  [beginOffset |-> offset,
   content |-> [i \in 1..length |->
                  IF offset + i <= Len(text) THEN text[offset + i] ELSE Letter[1]]]

Entities(text) ==
  { Entity(text, o, l) : o \in 0..Len(text), l \in 1..MaxEntityLen }

\* The entities a response mentions for a text: spans of the text.
MentionedEntities(text) ==
  { e \in Entities(text) : e.beginOffset + Len(e.content) <= Len(text) }

MaxLengths == { <<>> } \cup { <<n>> : n \in 0..MaxSpanLen }

AttributeDicts == { {}, {<<"class", "ww">>}, {<<"id", "x">>} }

ClassNames == { NoTag, "ww", "xx" }

EmptyDoc == [text |-> NoText, children |-> <<>>]

\* A chunk of a ChunkList handed to the list operations directly.
KanjiWord == <<26481, 20140>>

ChunkChoices ==
  { [word |-> <<SPACE_CHAR>>, pos |-> SPACE_POS, dependency |-> Unset] }
    \cup { [word |-> w, pos |-> "NOUN", dependency |-> d] :
             w \in {Letter, KanjiWord}, d \in {Forward, Backward, Unset} }

MakeChunks(raw) ==
  [i \in 1..Len(raw) |-> Chunk(i, raw[i].word, raw[i].pos, NoTag, raw[i].dependency)]

\* The lists of one or two different chunks of a list, in any order.
OldChunks(list) ==
  { <<>> } \cup { <<list[i]>> : i \in 1..Len(list) }
    \cup { <<list[p[1]], list[p[2]]>> :
             p \in { q \in (1..Len(list)) \X (1..Len(list)) : q[1] # q[2] } }

-----------------------------------------------------------------------------
(* One segment() call followed by html_serialize() *)

Idle ==
  /\ chunks = <<>>
  /\ next_id = 1
  /\ seen = [op |-> "none"]
  /\ doc = EmptyDoc
  /\ parse_defaults = {}
  /\ calls = 0
  /\ cache_file = NoFile

Init ==
  /\ pc = "segment"
  /\ \E n \in 0..MaxTokens : \E raw \in [1..n -> TokenChoices(Words, Spaces, n)] :
       /\ tokens = MakeTokens(raw)
       /\ input_text = MakeText(raw)
  /\ Idle

GetSourceChunks ==
  /\ pc = "segment"
  /\ LET r == _get_source_chunks(tokens, next_id)
     IN /\ chunks' = r.list
        /\ next_id' = r.nid
  /\ pc' = "source_chunks"
  /\ seen' = [op |-> "_get_source_chunks"]
  /\ UNCHANGED <<input_text, tokens, doc, parse_defaults, calls, cache_file>>

\* _group_chunks_by_entities on a response of no entity or of one entity
\* of `mentioned`; an error ends the call.
GroupChunksByEntities(at, to, mentioned) ==
  /\ pc = at
  /\ \E entities \in { <<>> } \cup { <<e>> : e \in mentioned } :
       LET r == IF entities = <<>>
                THEN [err |-> FALSE, list |-> chunks, nid |-> next_id, overlaps |-> <<>>]
                ELSE GroupByEntity(chunks, entities[1], next_id)
       IN /\ chunks' = r.list
          /\ next_id' = r.nid
          /\ pc' = IF r.err THEN "error" ELSE to
          /\ seen' = [op |-> "_group_chunks_by_entities", before |-> chunks,
                      entities |-> entities, overlaps |-> r.overlaps, err |-> r.err]
  /\ UNCHANGED <<input_text, tokens, doc, parse_defaults, calls, cache_file>>

ConcatenateForward ==
  /\ pc \in {"source_chunks", "entities", "list"}
  /\ LET r == _concatenate_inner(chunks, TRUE, next_id)
     IN /\ chunks' = r.list
        /\ next_id' = r.nid
  /\ pc' = "forward"
  /\ seen' = [op |-> "_concatenate_inner", direction |-> TRUE, before |-> chunks]
  /\ UNCHANGED <<input_text, tokens, doc, parse_defaults, calls, cache_file>>

ConcatenateBackward ==
  /\ pc \in {"forward", "list"}
  /\ LET r == _concatenate_inner(chunks, FALSE, next_id)
     IN /\ chunks' = r.list
        /\ next_id' = r.nid
  /\ pc' = "backward"
  /\ seen' = [op |-> "_concatenate_inner", direction |-> FALSE, before |-> chunks]
  /\ UNCHANGED <<input_text, tokens, doc, parse_defaults, calls, cache_file>>

InsertBreaklines ==
  /\ pc = "backward"
  /\ LET r == _insert_breaklines(chunks, next_id)
     IN /\ chunks' = r.list
        /\ next_id' = r.nid
        /\ pc' = IF r.err THEN "error" ELSE "resolved"
  /\ seen' = [op |-> "_insert_breaklines", before |-> chunks]
  /\ UNCHANGED <<input_text, tokens, doc, parse_defaults, calls, cache_file>>

HtmlSerialize ==
  /\ pc = "resolved"
  /\ \E max_length \in MaxLengths :
       /\ doc' = BuildDoc(chunks, {<<"class", DEFAULT_CLASS_NAME>>}, max_length)
       /\ seen' = [op |-> "html_serialize", before |-> chunks,
                   attributes |-> {<<"class", DEFAULT_CLASS_NAME>>},
                   max_length |-> max_length]
  /\ pc' = "done"
  /\ UNCHANGED <<input_text, tokens, chunks, next_id, parse_defaults, calls, cache_file>>

Next ==
  \/ GetSourceChunks
  \/ GroupChunksByEntities("source_chunks", "entities", MentionedEntities(input_text))
  \/ ConcatenateForward
  \/ ConcatenateBackward
  \/ InsertBreaklines
  \/ HtmlSerialize

Spec == Init /\ [][Next]_vars

-----------------------------------------------------------------------------
(* _get_source_chunks() on any annotation response *)

SourceInit ==
  /\ pc = "segment"
  /\ \E n \in 0..MaxTokens :
       \E raw \in [1..n -> TokenChoices(Punctuation \cup {[content |-> Letter, tag |-> "NOUN"]}, Gaps, n)] :
         \E trailing \in Spaces :
           /\ tokens = MakeTokens(raw)
           /\ input_text = MakeText(raw) \o trailing
  /\ Idle

SourceNext == GetSourceChunks

SourceSpec == SourceInit /\ [][SourceNext]_vars

-----------------------------------------------------------------------------
(* The operations of a ChunkList, called on any list *)

ListInit ==
  /\ pc = "list"
  /\ input_text = <<>>
  /\ tokens = <<>>
  /\ \E n \in 0..MaxChunks : \E raw \in [1..n -> ChunkChoices] :
       /\ chunks = MakeChunks(raw)
       /\ next_id = n + 1
  /\ seen = [op |-> "none"]
  /\ doc = EmptyDoc
  /\ parse_defaults = {}
  /\ calls = 0
  /\ cache_file = NoFile

GetOverlaps ==
  /\ pc = "list"
  /\ \E offset \in 0..Len(JoinWords(chunks)) : \E length \in 0..MaxEntityLen :
       LET r == get_overlaps(chunks, offset, length)
       IN /\ seen' = [op |-> "get_overlaps", before |-> chunks, offset |-> offset,
                      length |-> length, result |-> r.result, err |-> r.err]
          /\ pc' = IF r.err THEN "error" ELSE "returned"
  /\ UNCHANGED <<input_text, tokens, chunks, next_id, doc, parse_defaults, calls, cache_file>>

Swap ==
  /\ pc = "list"
  /\ \E old_chunks \in OldChunks(chunks) :
       LET new_chunk == Chunk(next_id, JoinWords(old_chunks), NoTag, NoTag, Unset)
           r == swap(chunks, old_chunks, new_chunk)
       IN /\ chunks' = r.list
          /\ seen' = [op |-> "swap", before |-> chunks, old_chunks |-> old_chunks,
                      new_chunk |-> new_chunk, err |-> r.err]
          /\ pc' = IF r.err THEN "error" ELSE "returned"
  /\ next_id' = next_id + 1
  /\ UNCHANGED <<input_text, tokens, doc, parse_defaults, calls, cache_file>>

\* resolve_dependencies(), called on a list and again on the list it left.
ResolveDependencies ==
  /\ pc \in {"list", "resolved"}
  /\ calls < MaxCalls
  /\ LET r == resolve_dependencies(chunks, next_id)
     IN /\ chunks' = r.list
        /\ next_id' = r.nid
        /\ pc' = IF r.err THEN "error" ELSE "resolved"
  /\ calls' = calls + 1
  /\ seen' = [op |-> "resolve_dependencies", before |-> chunks]
  /\ UNCHANGED <<input_text, tokens, doc, parse_defaults, cache_file>>

ListNext ==
  \/ GetOverlaps
  \/ Swap
  \/ GroupChunksByEntities("list", "returned", Entities(JoinWords(chunks)))
  \/ ResolveDependencies
  \/ ConcatenateForward
  \/ ConcatenateBackward
  \/ HtmlSerialize

ListSpec == ListInit /\ [][ListNext]_vars

-----------------------------------------------------------------------------
(* Parser.parse, called again and again on one process *)

ParserInit ==
  /\ pc = "parser"
  /\ input_text = <<>>
  /\ tokens = <<>>
  /\ Idle

\* The annotation responses parse is called on: no token, or one word.
ParserSources ==
  { <<>> } \cup { <<t>> : t \in TokenChoices(Words, {<<>>}, 1) }

\* parse(source, attributes, classname=classname); given = FALSE is a call
\* that passes no attributes, so that the function's default dict object is
\* the one parse_attributes updates.  The chunks of a call are new objects.
Parse ==
  /\ pc = "parser"
  /\ calls < MaxCalls
  /\ \E raw \in ParserSources : \E classname \in ClassNames :
     \E arg \in {[given |-> FALSE, passed |-> {}]}
                  \cup {[given |-> TRUE, passed |-> a] : a \in AttributeDicts} :
       LET attributes ==
             parse_attributes(IF arg.given THEN arg.passed ELSE parse_defaults, classname)
           source == preprocess(MakeText(raw))
           r == segment(MakeTokens(raw), 1)
       IN /\ input_text' = source
          /\ tokens' = MakeTokens(raw)
          /\ chunks' = r.list
          /\ next_id' = r.nid
          /\ doc' = BuildDoc(r.list, attributes, <<>>)
          /\ parse_defaults' = IF arg.given THEN parse_defaults ELSE attributes
          /\ seen' = [op |-> "parse", given |-> arg.given, passed |-> arg.passed,
                      classname |-> classname, attributes |-> attributes]
  /\ calls' = calls + 1
  /\ pc' = "parser"
  /\ UNCHANGED cache_file

ParserNext == Parse

ParserSpec == ParserInit /\ [][ParserNext]_vars

-----------------------------------------------------------------------------
(* One cache file under set, get and memoized calls *)

CacheTexts == { Letter, Kanji }
CacheKeys == { CacheKey(t) : t \in CacheTexts }
CacheValues == { Annotations(t) : t \in CacheTexts }

\* seen.latest: for every key, the value of the most recent set, NoValue
\* where there was none.
CacheInit ==
  /\ pc = "cache"
  /\ input_text = <<>>
  /\ tokens = <<>>
  /\ chunks = <<>>
  /\ next_id = 1
  /\ seen = [op |-> "none", latest |-> [k \in CacheKeys |-> NoValue]]
  /\ doc = EmptyDoc
  /\ parse_defaults = {}
  /\ calls = 0
  /\ cache_file = NoFile

CacheSet ==
  /\ pc = "cache"
  /\ calls < MaxCacheOps
  /\ \E key \in CacheKeys : \E val \in CacheValues :
       /\ cache_file' = PickleCacheSet(cache_file, key, val)
       /\ seen' = [op |-> "set", key |-> key, val |-> val,
                   latest |-> [seen.latest EXCEPT ![key] = val]]
  /\ calls' = calls + 1
  /\ UNCHANGED <<pc, input_text, tokens, chunks, next_id, doc, parse_defaults>>

CacheGet ==
  /\ pc = "cache"
  /\ calls < MaxCacheOps
  /\ \E key \in CacheKeys :
       seen' = [op |-> "get", key |-> key,
                result |-> PickleCacheGet(cache_file, key), latest |-> seen.latest]
  /\ calls' = calls + 1
  /\ UNCHANGED <<pc, input_text, tokens, chunks, next_id, doc, parse_defaults,
                 cache_file>>

GetAnnotations ==
  /\ pc = "cache"
  /\ calls < MaxCacheOps
  /\ \E text \in CacheTexts : \E use_cache \in BOOLEAN :
       LET r == memorize(cache_file, text, use_cache)
       IN /\ cache_file' = r.file
          /\ seen' = [op |-> "_get_annotations", text |-> text,
                      use_cache |-> use_cache, val |-> r.val,
                      reads |-> r.reads, writes |-> r.writes, before |-> cache_file,
                      latest |-> IF r.writes > 0
                                 THEN [seen.latest EXCEPT ![CacheKey(text)] = r.val]
                                 ELSE seen.latest]
  /\ calls' = calls + 1
  /\ UNCHANGED <<pc, input_text, tokens, chunks, next_id, doc, parse_defaults>>

CacheNext ==
  \/ CacheSet
  \/ CacheGet
  \/ GetAnnotations

CacheSpec == CacheInit /\ [][CacheNext]_vars

-----------------------------------------------------------------------------
(* Properties *)

IdsOf(list) == { list[i].id : i \in 1..Len(list) }

\* The words of a list, every Breakline chunk read as the space it replaced.
RECURSIVE ReadBack(_)
ReadBack(list) ==
  IF list = <<>> THEN <<>>
  ELSE (IF Head(list).pos = BREAK_POS THEN <<SPACE_CHAR>> ELSE Head(list).word)
         \o ReadBack(Tail(list))

Resolved == pc = "resolved" /\ seen.op = "resolve_dependencies" /\ calls = 1

\* C1: after resolve_dependencies() the words of the list, with every
\* Breakline read as a space, concatenate to the same text as the words of
\* the list before the call.
C1_WordPreservation ==
  Resolved => ReadBack(chunks) = JoinWords(seen.before)

\* A call that merged chunks in both passes and inserted a breakline.
C1_Witness ==
  /\ Resolved
  /\ Len(seen.before) = 3
  /\ seen.before[1].dependency = Forward
  /\ seen.before[3].dependency = Backward
  /\ \E i \in 1..Len(chunks) : chunks[i].pos = BREAK_POS

\* C2: the words of the list _get_source_chunks builds concatenate to the
\* input text, whatever lies between the tokens and after the last one.
C2_RoundTrip ==
  pc = "source_chunks" => JoinWords(chunks) = input_text

Grouped == seen.op = "_group_chunks_by_entities" /\ ~seen.err

\* C3: an entity with overlapped chunks replaces them, a run of the list, by
\* one new chunk that carries their words in list order and no pos, label
\* or dependency; the chunks before and after the run stay as they are and
\* the words of the list concatenate to the same text.
C3_EntityGrouping ==
  (Grouped /\ seen.overlaps # <<>>) =>
    LET before == seen.before
        overlaps == seen.overlaps
        first == IndexOf(before, overlaps[1]) + 1
        last == first + Len(overlaps) - 1
    IN /\ last <= Len(before)
       /\ overlaps = SubSeq(before, first, last)
       /\ Len(chunks) = Len(before) - Len(overlaps) + 1
       /\ SubSeq(chunks, 1, first - 1) = SubSeq(before, 1, first - 1)
       /\ SubSeq(chunks, first + 1, Len(chunks)) = SubSeq(before, last + 1, Len(before))
       /\ chunks[first].word = JoinWords(overlaps)
       /\ chunks[first].pos = NoTag
       /\ chunks[first].label = NoTag
       /\ chunks[first].dependency = Unset
       /\ chunks[first].id \notin IdsOf(before)
       /\ JoinWords(chunks) = JoinWords(before)

\* An entity over two chunks in the middle of a list.
C3_Witness ==
  /\ Grouped
  /\ pc = "returned"
  /\ Len(seen.overlaps) = 2
  /\ Len(seen.before) = 3
  /\ seen.overlaps[1] = seen.before[2]

\* Whether [a1, a2) and [b1, b2) have a character in common.
Intersects(a1, a2, b1, b2) ==
  (IF a1 > b1 THEN a1 ELSE b1) < (IF a2 < b2 THEN a2 ELSE b2)

\* Whether `result` lists chunks of `list` in the order of `list`.
InListOrder(result, list) ==
  /\ \A k \in 1..Len(result) : IndexOf(list, result[k]) >= 0
  /\ \A k \in 1..(Len(result) - 1) :
       IndexOf(list, result[k]) < IndexOf(list, result[k + 1])

Looked == seen.op = "get_overlaps" /\ ~seen.err

\* Every chunk get_overlaps returned has a character in [from, from + length).
AllIntersect(from) ==
  \A k \in 1..Len(seen.result) :
    LET i == IndexOf(seen.before, seen.result[k]) + 1
        start == StartOf(seen.before, i)
    IN Intersects(start, start + Len(seen.before[i].word), from, from + seen.length)

\* C4 as claimed: get_overlaps(offset, length) returns chunks in list order,
\* each with a character in the range [offset, offset + length) of the call.
C4_OverlapsIntersectGivenRange ==
  Looked => /\ InListOrder(seen.result, seen.before)
            /\ AllIntersect(seen.offset)

\* C4 as amended: for a length of one or more, get_overlaps returns chunks
\* in list order, each with a character in [start, start + length), where
\* start is offset + 1 when the character at offset is a space and offset
\* otherwise.
C4_OverlapsIntersectShiftedRange ==
  Looked =>
    /\ InListOrder(seen.result, seen.before)
    /\ seen.length >= 1 =>
         AllIntersect(IF JoinWords(seen.before)[seen.offset + 1] = SPACE_CHAR
                      THEN seen.offset + 1 ELSE seen.offset)

\* A lookup at a space that returns the chunks after the space.
C4_Witness ==
  /\ Looked
  /\ JoinWords(seen.before)[seen.offset + 1] = SPACE_CHAR
  /\ seen.length = 2
  /\ Len(seen.result) = 2

\* C5: an entity that begins at or beyond the end of the text of the list
\* is skipped: get_overlaps returns no chunk and raises nothing, and the
\* list stays as it is.
C5_OutOfRangeEntitySkipped ==
  /\ (seen.op = "_group_chunks_by_entities"
        /\ seen.entities # <<>>
        /\ seen.entities[1].beginOffset >= Len(JoinWords(seen.before)))
       => (~seen.err /\ pc # "error" /\ seen.overlaps = <<>> /\ chunks = seen.before)
  /\ (seen.op = "get_overlaps" /\ seen.offset >= Len(JoinWords(seen.before)))
       => (~seen.err /\ pc # "error" /\ seen.result = <<>>)

\* The chunks of old_chunks are in the list and do not form a run of it.
NonContiguous(old_chunks, list) ==
  LET at == { IndexOf(list, old_chunks[k]) : k \in 1..Len(old_chunks) }
  IN /\ old_chunks # <<>>
     /\ -1 \notin at
     /\ \E i \in 0..(Len(list) - 1) :
          /\ i \notin at
          /\ \E lo \in at : lo < i
          /\ \E hi \in at : hi > i

\* C6: swap on chunks of the list that do not form a run ends in an error
\* and leaves the list as it is; no chunk outside old_chunks is removed.
C6_NonContiguousSwapFails ==
  (seen.op = "swap" /\ NonContiguous(seen.old_chunks, seen.before)) =>
    /\ seen.err
    /\ pc = "error"
    /\ chunks = seen.before
    /\ \A i \in 1..Len(seen.before) :
         seen.before[i].id \in IdsOf(chunks) \cup IdsOf(seen.old_chunks)

Serialized == pc = "done" /\ seen.op = "html_serialize"

\* The test C7 states: the word has a CJK character and is no longer than
\* the maximum length, where one is configured.
Wrapped(chunk, max_length) ==
  has_cjk(chunk) /\ (max_length = <<>> \/ Len(chunk.word) <= max_length[1])

\* The words of the chunks of a list that are no Space chunks and pass, or
\* fail, the test of C7.
RECURSIVE WordsWhere(_, _, _)
WordsWhere(list, max_length, wrapped) ==
  IF list = <<>> THEN <<>>
  ELSE (IF ~is_space(Head(list)) /\ (Wrapped(Head(list), max_length) <=> wrapped)
        THEN <<Head(list).word>> ELSE <<>>)
         \o WordsWhere(Tail(list), max_length, wrapped)

RECURSIVE Concat(_)
Concat(ss) == IF ss = <<>> THEN <<>> ELSE Head(ss) \o Concat(Tail(ss))

NoSpaces(s) == SelectSeq(s, LAMBDA c : c # SPACE_CHAR)

\* The text of a tree that lies in no span element of its own: the text of
\* the outer element and the tails of its elements, in document order.
PlainText(d) ==
  Concat([i \in 1..(Len(d.children) + 1) |->
            LET t == IF i = 1 THEN d.text ELSE d.children[i - 1].tail
            IN IF t = NoText THEN <<>> ELSE t])

\* C7: the span elements of the output are, in chunk order, the words of the
\* chunks that are no Space chunks, have a CJK character and are no longer
\* than max_length where a max_length (0 included) is given; each carries
\* the attributes; the words of the other chunks are plain text.
C7_SpanWrapping ==
  Serialized =>
    /\ [i \in 1..Len(doc.children) |-> doc.children[i].text]
         = WordsWhere(chunks, seen.max_length, TRUE)
    /\ \A i \in 1..Len(doc.children) : doc.children[i].attrib = seen.attributes
    /\ NoSpaces(PlainText(doc)) = NoSpaces(Concat(WordsWhere(chunks, seen.max_length, FALSE)))

EmptyInput == tokens = <<>> /\ input_text = <<>>

C9_ParseIndependence ==
  seen.op = "parse" =>
    LET own == IF seen.given THEN seen.passed ELSE {}
        defaulted == IF \E p \in own : p[1] = "class" THEN own
                     ELSE own \cup {<<"class", "chunk">>}
        expected == IF seen.classname # NoTag
                    THEN {p \in defaulted : p[1] # "class"} \cup {<<"class", seen.classname>>}
                    ELSE defaulted
    IN /\ seen.attributes = expected
       /\ \A i \in 1..Len(doc.children) : doc.children[i].attrib = expected

\* The chunks made of the tokens, in token order.
TokenChunks == SelectSeq(chunks, LAMBDA c : c.pos # SPACE_POS)

PunctuationCategories == {"Pc", "Pd", "Ps", "Pe", "Pi", "Pf", "Po"}

IsPunctuationToken(token) ==
  Len(token.content) = 1 /\ Category(token.content[1]) \in PunctuationCategories

\* C10: the chunk of a token that is one punctuation code point depends
\* Forward when the category is Ps or Pi and Backward otherwise, whatever
\* the label and the head of the token.
C10_PunctuationDirection ==
  pc = "source_chunks" =>
    /\ Len(TokenChunks) = Len(tokens)
    /\ \A i \in 1..Len(tokens) :
         IsPunctuationToken(tokens[i]) =>
           TokenChunks[i].dependency =
             IF Category(tokens[i].content[1]) \in {"Ps", "Pi"} THEN Forward ELSE Backward

\* A closing bracket labelled as a dependent of a later token and an opening
\* bracket labelled as a dependent of an earlier one.
C10_Witness ==
  /\ pc = "source_chunks"
  /\ \E i, j \in 1..Len(tokens) :
       /\ Category(tokens[i].content[1]) = "Pe"
       /\ tokens[i].label \in DEPENDENT_LABEL
       /\ i - 1 < tokens[i].headTokenIndex
       /\ TokenChunks[i].dependency = Backward
       /\ Category(tokens[j].content[1]) = "Ps"
       /\ tokens[j].label \in DEPENDENT_LABEL
       /\ j - 1 >= tokens[j].headTokenIndex
       /\ TokenChunks[j].dependency = Forward

\* The labels C11 names.
DependentLabels ==
  {"P", "SNUM", "PRT", "AUX", "SUFF", "AUXPASS", "RDROP", "NUMBER", "NUM", "PREF"}

\* C11: the chunk of a token that is no single punctuation code point, at
\* index i with head h, depends Forward when its label is a dependent label
\* and h > i, Backward when its label is a dependent label and h <= i, and
\* has no dependency exactly when its label is no dependent label.
C11_LabelDirection ==
  pc = "source_chunks" =>
    /\ Len(TokenChunks) = Len(tokens)
    /\ \A k \in 1..Len(tokens) :
         ~IsPunctuationToken(tokens[k]) =>
           LET i == k - 1
               h == tokens[k].headTokenIndex
               dependent == tokens[k].label \in DependentLabels
           IN /\ (dependent /\ h > i) => TokenChunks[k].dependency = Forward
              /\ (dependent /\ h <= i) => TokenChunks[k].dependency = Backward
              /\ TokenChunks[k].dependency = Unset <=> ~dependent

\* Two words with a dependent label: one whose head comes later and one that
\* is its own head.
C11_Witness ==
  /\ pc = "source_chunks"
  /\ Len(tokens) = 2
  /\ \A k \in 1..2 : ~IsPunctuationToken(tokens[k]) /\ tokens[k].label \in DependentLabels
  /\ tokens[1].headTokenIndex = 1
  /\ tokens[2].headTokenIndex = 1
  /\ TokenChunks[1].dependency = Forward
  /\ TokenChunks[2].dependency = Backward

\* C12: in every state of the list, a chunk that reports is_space() has the
\* word of one space and no dependency, and a Breakline chunk has the word
\* of one newline and no dependency.
C12_SpaceBreaklineLiteral ==
  \A i \in 1..Len(chunks) :
    /\ is_space(chunks[i]) =>
         (chunks[i].word = <<SPACE_CHAR>> /\ chunks[i].dependency = Unset)
    /\ chunks[i].pos = BREAK_POS =>
         (chunks[i].word = <<BREAK_CHAR>> /\ chunks[i].dependency = Unset)

\* The positions (from 0) of the chunks of old_chunks in a list.
IndexesOf(old_chunks, list) ==
  { IndexOf(list, old_chunks[k]) : k \in 1..Len(old_chunks) }

Least(S) == CHOOSE x \in S : \A y \in S : x <= y
Greatest(S) == CHOOSE x \in S : \A y \in S : x >= y

\* The chunks of old_chunks are different chunks of the list and form a run
\* of it, in whatever order they are listed.
Contiguous(old_chunks, list) ==
  LET at == IndexesOf(old_chunks, list)
  IN /\ old_chunks # <<>>
     /\ -1 \notin at
     /\ Cardinality(at) = Len(old_chunks)
     /\ Greatest(at) - Least(at) + 1 = Len(old_chunks)

\* C13: swap on chunks that form a run of the list, listed in any order,
\* puts the new chunk in the place of the run from the least to the greatest
\* index; the chunks before and after the run stay as they are.
C13_SwapReplacesRange ==
  (seen.op = "swap" /\ Contiguous(seen.old_chunks, seen.before)) =>
    LET at == IndexesOf(seen.old_chunks, seen.before)
    IN /\ ~seen.err
       /\ Len(chunks) = Len(seen.before) - Len(seen.old_chunks) + 1
       /\ chunks = SubSeq(seen.before, 1, Least(at)) \o <<seen.new_chunk>>
                     \o SubSeq(seen.before, Greatest(at) + 2, Len(seen.before))

EndsWithSpace(chunk) ==
  chunk.word # <<>> /\ chunk.word[Len(chunk.word)] = SPACE_CHAR

\* A list with the object identity of its Breakline chunks left out.
Anonymous(list) ==
  [i \in 1..Len(list) |->
     IF list[i].pos = BREAK_POS THEN [list[i] EXCEPT !.id = 0] ELSE list[i]]

\* What C14 states of a list: every chunk with a CJK character and a space
\* at its end loses that one space and is followed by a Breakline; every
\* other chunk stays as it is.
RECURSIVE WithBreaklines(_)
WithBreaklines(list) ==
  IF list = <<>> THEN <<>>
  ELSE LET c == Head(list)
       IN (IF EndsWithSpace(c) /\ has_cjk(c)
           THEN << [c EXCEPT !.word = SubSeq(c.word, 1, Len(c.word) - 1)],
                   [id |-> 0, word |-> <<BREAK_CHAR>>, pos |-> BREAK_POS,
                    label |-> NoTag, dependency |-> Unset] >>
           ELSE <<c>>)
            \o WithBreaklines(Tail(list))

BreaklinesInserted == seen.op = "_insert_breaklines" /\ pc = "resolved"

\* C14: _insert_breaklines() after the two passes strips one space from the
\* end of every chunk that has a CJK character and ends with a space and
\* places one Breakline after it, and leaves every other chunk as it is;
\* there are as many Breaklines as chunks with CJK that ended with a space.
C14_BreaklineInsertion ==
  seen.op = "_insert_breaklines" =>
    /\ pc = "resolved"
    /\ Anonymous(chunks) = WithBreaklines(seen.before)
    /\ Cardinality({ i \in 1..Len(chunks) : chunks[i].pos = BREAK_POS })
         = Cardinality({ i \in 1..Len(seen.before) :
                           EndsWithSpace(seen.before[i]) /\ has_cjk(seen.before[i]) })
    /\ \A i \in 1..Len(chunks) :
         chunks[i].pos = BREAK_POS => chunks[i].id \notin IdsOf(seen.before)

\* A list with a CJK chunk that ends with a space, after the insertion.
C14_Witness ==
  /\ BreaklinesInserted
  /\ \E i \in 1..Len(seen.before) :
       EndsWithSpace(seen.before[i]) /\ has_cjk(seen.before[i])
  /\ \E i \in 1..Len(chunks) : chunks[i].pos = BREAK_POS

\* The number of Forward chunks at the head of a list.
RECURSIVE ForwardRun(_)
ForwardRun(list) ==
  IF list = <<>> \/ Head(list).dependency # Forward THEN 0
  ELSE 1 + ForwardRun(Tail(list))

\* The chunk that stands for a run merged with the chunk t: the words of
\* `parts` in order and the pos, label and dependency of t.  `made` tells
\* whether chunks were merged.
MergedChunk(parts, t, made) ==
  [word |-> JoinWords(parts), pos |-> t.pos, label |-> t.label,
   dependency |-> t.dependency, made |-> made]

Kept(chunk) == [kept |-> chunk]

\* What C15 states of the forward pass: every maximal run of Forward chunks
\* with the chunk t after it gives one chunk; a run at the end of the list
\* is kept.
RECURSIVE ForwardMerged(_)
ForwardMerged(list) ==
  IF list = <<>> THEN <<>>
  ELSE LET n == ForwardRun(list)
       IN IF n = Len(list)
          THEN [i \in 1..n |-> Kept(list[i])]
          ELSE <<MergedChunk(SubSeq(list, 1, n + 1), list[n + 1], n > 0)>>
                 \o ForwardMerged(SubSeq(list, n + 2, Len(list)))

\* Whether a list is what `expected` describes: a kept chunk is the same
\* object; a merged chunk has the word, pos, label and dependency described
\* and is a new object where chunks were merged.
Matches(list, expected, before) ==
  /\ Len(list) = Len(expected)
  /\ \A i \in 1..Len(list) :
       IF "kept" \in DOMAIN expected[i]
       THEN list[i] = expected[i].kept
       ELSE /\ list[i].word = expected[i].word
            /\ list[i].pos = expected[i].pos
            /\ list[i].label = expected[i].label
            /\ list[i].dependency = expected[i].dependency
            /\ expected[i].made => list[i].id \notin IdsOf(before)

Passed(direction) ==
  /\ seen.op = "_concatenate_inner"
  /\ seen.direction = direction

\* C15: the forward pass gives, for every maximal run of Forward chunks
\* followed by a chunk t that is not Forward, one new chunk with the words of
\* the run and of t in order and the pos, label and dependency of t; a run
\* of Forward chunks at the end of the list is output as the same chunks.
C15_ForwardPass ==
  Passed(TRUE) => Matches(chunks, ForwardMerged(seen.before), seen.before)

\* Two Forward chunks merged with the chunk after them.
C15_Witness ==
  /\ Passed(TRUE)
  /\ Len(seen.before) = 3
  /\ seen.before[1].dependency = Forward
  /\ seen.before[2].dependency = Forward
  /\ seen.before[3].dependency # Forward
  /\ Len(chunks) = 1

Absorbed(chunk) == is_space(chunk) \/ chunk.dependency = Backward

\* The number of Space or Backward chunks at the head of a list.
RECURSIVE AbsorbedRun(_)
AbsorbedRun(list) ==
  IF list = <<>> \/ ~Absorbed(Head(list)) THEN 0
  ELSE 1 + AbsorbedRun(Tail(list))

\* What C16 states of the backward pass: a run of Space or Backward chunks
\* at the head of the list is kept; every other chunk t gives one chunk with
\* the maximal run of Space or Backward chunks after it.
RECURSIVE BackwardMergedFrom(_)
BackwardMergedFrom(list) ==
  IF list = <<>> THEN <<>>
  ELSE LET n == AbsorbedRun(Tail(list))
       IN <<MergedChunk(SubSeq(list, 1, n + 1), list[1], n > 0)>>
            \o BackwardMergedFrom(SubSeq(list, n + 2, Len(list)))

BackwardMerged(list) ==
  LET n == AbsorbedRun(list)
  IN [i \in 1..n |-> Kept(list[i])] \o BackwardMergedFrom(SubSeq(list, n + 1, Len(list)))

\* C16: the backward pass merges every maximal run of chunks that are Space
\* chunks or Backward into the chunk t before the run, where t is neither:
\* one new chunk with the word of t followed by the words of the run in
\* list order and the pos, label and dependency of t; a run at the head of
\* the list is output as the same chunks.
C16_BackwardPass ==
  Passed(FALSE) => Matches(chunks, BackwardMerged(seen.before), seen.before)

\* A word followed by a Space chunk and a Backward chunk, merged into one.
C16_Witness ==
  /\ Passed(FALSE)
  /\ Len(seen.before) = 3
  /\ ~Absorbed(seen.before[1])
  /\ is_space(seen.before[2])
  /\ seen.before[2].dependency = Unset
  /\ seen.before[3].dependency = Backward
  /\ Len(chunks) = 1

NonEmptyWords(list) == \A i \in 1..Len(list) : list[i].word # <<>>

\* C17: on a list of chunks with non-empty words, the first call of
\* resolve_dependencies() leaves every chunk with a non-empty word and the
\* second call ends without an error.
C17_SecondResolveCompletes ==
  (seen.op = "resolve_dependencies" /\ calls \in {1, 2}) =>
    /\ pc # "error"
    /\ calls = 1 => NonEmptyWords(chunks)

\* A second call on a list that holds a Breakline of the first call.
C17_Witness ==
  /\ seen.op = "resolve_dependencies"
  /\ calls = 2
  /\ pc = "resolved"
  /\ \E i \in 1..Len(seen.before) : seen.before[i].pos = BREAK_POS

\* The chunks of a list that are no Breakline chunks.
WithoutBreaklines(list) == SelectSeq(list, LAMBDA c : c.pos # BREAK_POS)

\* C18: after resolve_dependencies(), Breakline chunks left aside, a chunk
\* with Forward dependency has only Forward chunks after it, and a chunk
\* that is Backward or reports is_space() has only such chunks before it.
C18_DependentsGlued ==
  (seen.op = "resolve_dependencies" /\ pc = "resolved") =>
    LET rest == WithoutBreaklines(chunks)
    IN \A i \in 1..Len(rest) : \A j \in (i + 1)..Len(rest) :
         /\ rest[i].dependency = Forward => rest[j].dependency = Forward
         /\ Absorbed(rest[j]) => Absorbed(rest[i])

\* A list that had a Forward chunk before a word and a Backward chunk after
\* a word, resolved.
C18_Witness ==
  /\ Resolved
  /\ Len(seen.before) = 3
  /\ seen.before[1].dependency = Forward
  /\ seen.before[2].dependency = Unset
  /\ ~is_space(seen.before[2])
  /\ seen.before[3].dependency = Backward
  /\ Len(WithoutBreaklines(chunks)) = 1

\* C19: get(k) on the cache file returns the value of the most recent
\* set(k, v), whatever was set for other keys in between; and a memoized
\* call with use_cache false reads and writes nothing of the cache.
C19_CacheEntriesSurvive ==
  /\ (seen.op = "get" /\ seen.latest[seen.key] # NoValue) =>
       seen.result = seen.latest[seen.key]
  /\ (seen.op = "_get_annotations" /\ ~seen.use_cache) =>
       (seen.reads = 0 /\ seen.writes = 0 /\ cache_file = seen.before)

====
